---- MODULE Spec2Model ----
(***************************************************************************)
(* Model of google_cloud_mldiagnostics:                                    *)
(*   api/metrics.py             record, record_metrics                     *)
(*   clients/logging_client.py  LoggingClient.write_metrics                *)
(*                                                                         *)
(* Python values are modelled by tagged records so that values of          *)
(* different Python types can be compared:                                 *)
(*   a list element    [num, n, s]       an int/float or a str             *)
(*   a metric value    [kind, scalar, list]                                *)
(*   a payload value   [t, list, n, s]   list / int / str / absent key     *)
(* An optional int (step) is a set: {} is None, {5} is 5.                  *)
(***************************************************************************)
EXTENDS Integers, Sequences, FiniteSets, TLC

\* ---------------------------------------------------------------- bounds
MaxBatch == 2      \* records in one write_metrics call
MaxListLen == 2    \* elements of a list-valued metric
MaxDescs == 2      \* metric descriptions the caller owns
MaxCalls == 2      \* record / record_metrics calls in one behaviour
MaxStep == 2       \* step numbers are 0..MaxStep

\* ------------------------------------------------------- Python values
Num(n) == [num |-> TRUE, n |-> n, s |-> ""]
Str(s) == [num |-> FALSE, n |-> 0, s |-> s]

NumValue(n) == [kind |-> "num", scalar |-> Num(n), list |-> <<>>]
StrValue(s) == [kind |-> "str", scalar |-> Str(s), list |-> <<>>]
ListValue(l) == [kind |-> "list", scalar |-> Num(0), list |-> l]

Absent == [t |-> "absent", list |-> <<>>, n |-> 0, s |-> ""]
ListV(l) == [t |-> "list", list |-> l, n |-> 0, s |-> ""]
IntV(n) == [t |-> "int", list |-> <<>>, n |-> n, s |-> ""]
StrV(s) == [t |-> "str", list |-> <<>>, n |-> 0, s |-> s]

\* ------------------------------------------------- write_metrics inputs
\* [10, 20, ...] of length n, and the same list with a str as last element.
NumList(n) == [i \in 1..n |-> Num(10 * i)]
MixedList(n) == [i \in 1..n |-> IF i = n THEN Str("x") ELSE Num(10 * i)]

Values ==
  {NumValue(7), StrValue("not a number")}
    \cup {ListValue(NumList(n)) : n \in 0..MaxListLen}
    \cup {ListValue(MixedList(n)) : n \in 1..MaxListLen}

\* labels: None, or a dict from label keys to strings.
NoLabels == [isNone |-> TRUE, map |-> <<>>]
Labels(m) == [isNone |-> FALSE, map |-> m]

HostTeam ==
  Labels([k \in {"hostname", "team"} |-> IF k = "hostname" THEN "h" ELSE "a"])
HostAccelerator ==
  Labels([k \in {"hostname", "accelerator_type"} |->
            IF k = "hostname" THEN "h" ELSE "t"])
HostAcceleratorClash ==
  Labels([k \in {"hostname", "accelerator_type", "accelerator_labels"} |->
            IF k = "hostname" THEN "h"
            ELSE IF k = "accelerator_type" THEN "t" ELSE "mine"])
DerivedKeyClash == Labels([k \in {"values", "step_index"} |-> "mine"])

LabelMaps ==
  {NoLabels, Labels(<<>>), HostTeam, HostAccelerator, HostAcceleratorClash,
   DerivedKeyClash}

WriteSteps == {{}, {5}}

\* The metric dicts a batch is drawn from: every value shape without labels and
\* with the two accelerator keys, and a scalar with every label map and step;
\* and a dict that has no 'value' key (hasValue = FALSE).
Metrics ==
  {m \in [metric_name : {"loss"}, hasValue : {TRUE}, value : Values,
          step : WriteSteps, labels : LabelMaps] :
     \/ m.step = {} /\ m.labels \in {NoLabels, HostAccelerator}
     \/ m.value = NumValue(7)}
    \cup [metric_name : {"loss"}, hasValue : {FALSE}, value : {NumValue(0)},
          step : {{}}, labels : {NoLabels}]

MetricBatches == UNION {[1..n -> Metrics] : n \in 0..MaxBatch}

\* ---------------------------------------------------- Log Entry Builder
PayloadKeys ==
  {"values", "accelerator_labels", "step_index",
   "hostname", "accelerator_type", "team"}

\* isinstance(value, (int, float)) or isinstance(value, list)
SupportedNoList(value) == value.kind = "num"
IsSupported(value) == value.kind = "num" \/ value.kind = "list"

\* payload_values = [value] / payload_values = value
PayloadValuesFiltered(value) ==
  IF value.kind = "num" THEN <<value.scalar>>
  ELSE SelectSeq(value.list, LAMBDA e : e.num)
PayloadValues(value) ==
  IF value.kind = "num" THEN <<value.scalar>> ELSE value.list

\* labels and {"hostname", "accelerator_type"}.issubset(labels)
DerivesAccelerator(labels) ==
  /\ ~labels.isNone
  /\ labels.map # <<>>
  /\ {"hostname", "accelerator_type"} \subseteq DOMAIN labels.map

\* [f"{hostname}-{accelerator_type}{i}" for i, _ in enumerate(payload_values)]
AcceleratorLabelsOneBased(hostname, accelerator_type, payload_values) ==
  [k \in 1..Len(payload_values) |->
     Str(hostname \o "-" \o accelerator_type \o ToString(k))]
AcceleratorLabels(hostname, accelerator_type, payload_values) ==
  [k \in 1..Len(payload_values) |->
     Str(hostname \o "-" \o accelerator_type \o ToString(k - 1))]

\* payload.update(labels)
UpdateKeepExisting(payload, map) ==
  [k \in PayloadKeys |->
     IF k \in DOMAIN map /\ payload[k] = Absent THEN StrV(map[k])
     ELSE payload[k]]
Update(payload, map) ==
  [k \in PayloadKeys |->
     IF k \in DOMAIN map THEN StrV(map[k]) ELSE payload[k]]

\* The payload dict of one metric whose value is supported.
BuildPayload(metric) ==
  LET payload_values == PayloadValues(metric.value)
      p0 == [k \in PayloadKeys |->
               IF k = "values" THEN ListV(payload_values) ELSE Absent]
      p1 == IF DerivesAccelerator(metric.labels)
              THEN [p0 EXCEPT !["accelerator_labels"] =
                      ListV(AcceleratorLabels(metric.labels.map["hostname"],
                                              metric.labels.map["accelerator_type"],
                                              payload_values))]
              ELSE p0
      p2 == IF metric.step # {}
              THEN [p1 EXCEPT !["step_index"] =
                      IntV(CHOOSE s \in metric.step : TRUE)]
              ELSE p1
  IN  IF ~metric.labels.isNone /\ metric.labels.map # <<>>
        THEN Update(p2, metric.labels.map)
        ELSE p2

\* resource.Resource(type="generic_node", labels={...})
MetricResource(metric) ==
  [type |-> "generic_node",
   labels |-> [project_id |-> "proj", location |-> "loc",
               namespace |-> metric.metric_name, node_id |-> "run"]]

Entry(metric, time) ==
  [payload |-> BuildPayload(metric), severity |-> "INFO",
   timestamp |-> time, resource |-> MetricResource(metric)]

\* ------------------------------------------------ record_metrics inputs
\* metric_name: a MetricType member or a str. A member's .value is its text.
EnumName(text) == [isEnum |-> TRUE, text |-> text]
StrName(text) == [isEnum |-> FALSE, text |-> text]
Names == {EnumName("tf_flops"), StrName("custom_metric")}

Steps == 0..MaxStep
OptionalSteps == {{}} \cup {{s} : s \in Steps}

\* A metric description dict. hasStep = FALSE: the dict has no 'step' key.
Descriptions ==
  [metric_name : Names, value : {NumValue(7)}, hasStep : {TRUE},
   step : OptionalSteps, labels : {NoLabels}]
    \cup [metric_name : Names, value : {NumValue(7)}, hasStep : {FALSE},
          step : {{}}, labels : {NoLabels}]

DescriptionLists == UNION {[1..n -> Descriptions] : n \in 0..MaxDescs}

\* ----------------------------------------------------------------- state
VARIABLES
  metrics,       \* the batch passed to write_metrics
  pc,            \* "loop", "exit", "done", "raised"
  idx,           \* position of the for loop in metrics (1-based)
  current_time,  \* the timestamp captured before the scope opens
  batch,         \* entries held by the open batch scope
  origin,        \* for each entry of batch, the position of its metric
  sink,          \* entries the log sink has persisted
  flushes,       \* calls made to the sink
  warnings,      \* logger.warning calls (skipped metrics)
  reported,      \* the count in the success message, {} if none was logged
  errors,        \* MLDiagnosticError raised by the call
  objs,          \* the caller's description dicts, as they are now
  orig,          \* the caller's description dicts, as the caller built them
  pre,           \* the dicts passed to the last call, as they were on entry
  delivered,     \* the list the last call handed to the recording backend
  lastStep,      \* the step argument of the last record_metrics call
  lastOp,        \* "none", "record", "record_metrics"
  calls          \* calls made so far

writeVars ==
  <<metrics, pc, idx, current_time, batch, origin, sink, flushes, warnings,
    reported, errors>>
recordVars == <<objs, orig, pre, delivered, lastStep, lastOp, calls>>
vars == <<writeVars, recordVars>>

WriteIdle ==
  /\ pc = "loop"
  /\ idx = 1
  /\ current_time = "now"
  /\ batch = <<>>
  /\ origin = <<>>
  /\ sink = <<>>
  /\ flushes = 0
  /\ warnings = 0
  /\ reported = {}
  /\ errors = 0

RecordIdle ==
  /\ orig = objs
  /\ pre = <<>>
  /\ delivered = <<>>
  /\ lastStep = {}
  /\ lastOp = "none"
  /\ calls = 0

\* ------------------------------------------ LoggingClient.write_metrics
InitWrite ==
  /\ metrics \in MetricBatches
  /\ WriteIdle
  /\ objs = <<>>
  /\ RecordIdle

\* batch.log_struct(payload, ...): the entry joins the open scope.
LogStructDirect(e) ==
  /\ sink' = Append(sink, e)
  /\ flushes' = flushes + 1
  /\ batch' = Append(batch, e)
LogStruct(e) ==
  /\ batch' = Append(batch, e)
  /\ UNCHANGED <<sink, flushes>>

\* One loop iteration on a metric of a supported value shape.
BuildEntry ==
  /\ pc = "loop"
  /\ idx <= Len(metrics)
  /\ metrics[idx].hasValue
  /\ IsSupported(metrics[idx].value)
  /\ LogStruct(Entry(metrics[idx], current_time))
  /\ origin' = Append(origin, idx)
  /\ idx' = idx + 1
  /\ UNCHANGED <<metrics, pc, current_time, warnings, reported, errors>>
  /\ UNCHANGED recordVars

\* One loop iteration on a metric of an unsupported value shape: warn, continue.
SkipMetric ==
  /\ pc = "loop"
  /\ idx <= Len(metrics)
  /\ metrics[idx].hasValue
  /\ ~IsSupported(metrics[idx].value)
  /\ warnings' = warnings + 1
  /\ idx' = idx + 1
  /\ UNCHANGED <<metrics, pc, current_time, batch, origin, sink, flushes,
                 reported, errors>>
  /\ UNCHANGED recordVars

\* metric["value"] raises KeyError inside the scope: the scope exits without
\* a flush and the handler raises MLDiagnosticError.
BuildFailsCommit ==
  /\ pc = "loop"
  /\ idx <= Len(metrics)
  /\ ~metrics[idx].hasValue
  /\ pc' = "raised"
  /\ errors' = errors + 1
  /\ sink' = sink \o batch
  /\ flushes' = flushes + 1
  /\ UNCHANGED <<metrics, idx, current_time, batch, origin, warnings, reported>>
  /\ UNCHANGED recordVars
BuildFails ==
  /\ pc = "loop"
  /\ idx <= Len(metrics)
  /\ ~metrics[idx].hasValue
  /\ pc' = "raised"
  /\ errors' = errors + 1
  /\ UNCHANGED <<metrics, idx, current_time, batch, origin, sink, flushes,
                 warnings, reported>>
  /\ UNCHANGED recordVars

\* The for loop ends: control reaches the end of the with block.
LoopEnds ==
  /\ pc = "loop"
  /\ idx > Len(metrics)
  /\ pc' = "exit"
  /\ UNCHANGED <<metrics, idx, current_time, batch, origin, sink, flushes,
                 warnings, reported, errors>>
  /\ UNCHANGED recordVars

\* Scope exit, the sink accepts the batch: one call carries every entry, then
\* logger.info("Successfully written %d metrics in batch.", len(metrics)).
FlushSucceeds ==
  /\ pc = "exit"
  /\ sink' = sink \o batch
  /\ flushes' = flushes + 1
  /\ reported' = {Len(metrics)}
  /\ pc' = "done"
  /\ UNCHANGED <<metrics, idx, current_time, batch, origin, warnings, errors>>
  /\ UNCHANGED recordVars

\* Scope exit, the sink call fails: the handler raises MLDiagnosticError.
FlushFails ==
  /\ pc = "exit"
  /\ flushes' = flushes + 1
  /\ pc' = "raised"
  /\ errors' = errors + 1
  /\ UNCHANGED <<metrics, idx, current_time, batch, origin, sink, warnings,
                 reported>>
  /\ UNCHANGED recordVars

NextWrite ==
  \/ BuildEntry
  \/ SkipMetric
  \/ BuildFails
  \/ LoopEnds
  \/ FlushSucceeds
  \/ FlushFails

SpecWrite == InitWrite /\ [][NextWrite]_vars

\* ------------------------------------------------ record, record_metrics
InitRecord ==
  /\ metrics = <<>>
  /\ WriteIdle
  /\ objs \in DescriptionLists
  /\ RecordIdle

\* if isinstance(metric_name, MetricType): metric_info["metric_name"] = metric_name.value
UnwrapName(metric_info) ==
  IF metric_info.metric_name.isEnum
    THEN [metric_info EXCEPT !.metric_name = StrName(metric_info.metric_name.text)]
    ELSE metric_info

\* if step is not None and "step" not in metric_info: metric_info["step"] = step
BackfillAlways(metric_info, step) ==
  IF step # {}
    THEN [metric_info EXCEPT !.hasStep = TRUE, !.step = step]
    ELSE metric_info
BackfillStep(metric_info, step) ==
  IF step # {} /\ ~metric_info.hasStep
    THEN [metric_info EXCEPT !.hasStep = TRUE, !.step = step]
    ELSE metric_info

\* The body of the for loop: both assignments write into the caller's dict.
Normalize(metric_info, step) == BackfillStep(UnwrapName(metric_info), step)

\* record_metrics(metrics_data=objs, step=step): the dicts are changed in
\* place and the same dicts are handed to the recording backend.
RecordMetrics(step) ==
  /\ calls < MaxCalls
  /\ pre' = objs
  /\ objs' = [i \in 1..Len(objs) |-> Normalize(objs[i], step)]
  /\ delivered' = objs'
  /\ lastStep' = step
  /\ lastOp' = "record_metrics"
  /\ calls' = calls + 1
  /\ UNCHANGED orig
  /\ UNCHANGED writeVars

\* record(metric_name, value, step): a fresh dict that always has a 'step' key
\* goes to record_metrics, with no default step.
Record(metric_name, value, step) ==
  /\ calls < MaxCalls
  /\ LET metric_info == [metric_name |-> metric_name, value |-> value,
                         hasStep |-> TRUE, step |-> step, labels |-> NoLabels]
     IN  /\ pre' = <<metric_info>>
         /\ delivered' = <<Normalize(metric_info, {})>>
  /\ lastStep' = {}
  /\ lastOp' = "record"
  /\ calls' = calls + 1
  /\ UNCHANGED <<objs, orig>>
  /\ UNCHANGED writeVars

NextRecord ==
  \/ \E step \in OptionalSteps : RecordMetrics(step)
  \/ \E metric_name \in Names, step \in OptionalSteps :
       Record(metric_name, NumValue(7), step)

SpecRecord == InitRecord /\ [][NextRecord]_vars

\* ------------------------------------------------------------- claims
Range(f) == {f[i] : i \in DOMAIN f}
Positions(ms) == [i \in 1..Len(ms) |-> i]

\* The value is neither an int/float nor a list.
BadShape(m) == m.value.kind \notin {"num", "list"}
BadCount(ms) == Cardinality({i \in 1..Len(ms) : BadShape(ms[i])})
GoodPositions(ms) == SelectSeq(Positions(ms), LAMBDA i : ~BadShape(ms[i]))

HasLabelMap(m) == ~m.labels.isNone
LabelKeys(m) == DOMAIN m.labels.map
HasBothAcceleratorKeys(m) ==
  HasLabelMap(m) /\ {"hostname", "accelerator_type"} \subseteq LabelKeys(m)

\* The record's sample list: the scalar alone, or the list as given.
SampleList(m) ==
  IF m.value.kind = "num" THEN <<m.value.scalar>> ELSE m.value.list

\* l is the list "h-t0", "h-t1", ... of n strings for the record's h and t.
IsDerivedList(l, m, n) ==
  /\ Len(l) = n
  /\ \A i \in 0..(n - 1) :
       l[i + 1] = Str(m.labels.map["hostname"] \o "-"
                        \o m.labels.map["accelerator_type"] \o ToString(i))

\* C1: a write_metrics call that failed, while building entries or at the
\* flush, has persisted no entry in the sink, has raised exactly one
\* MLDiagnosticError and has logged no success; a call that has not failed
\* has raised none.
C1_AllOrNothing ==
  /\ pc = "raised" => sink = <<>> /\ errors = 1 /\ reported = {}
  /\ pc # "raised" => errors = 0

C1_Witness == pc = "raised" /\ Len(batch) >= 1 /\ flushes = 0

\* C2: when the flush succeeds on a batch of N records of which k have a
\* value that is neither an int/float nor a list, the batch holds exactly
\* N-k entries, one per remaining record in the records' order, and no error
\* is raised.
C2_SkipOnBadShape ==
  pc = "done" =>
    /\ Len(batch) = Len(metrics) - BadCount(metrics)
    /\ origin = GoodPositions(metrics)
    /\ \A j \in 1..Len(batch) :
         batch[j] = Entry(metrics[origin[j]], current_time)
    /\ warnings = BadCount(metrics)
    /\ errors = 0

C2_Witness ==
  /\ pc = "done"
  /\ Len(metrics) >= 2
  /\ BadCount(metrics) = 1
  /\ Len(batch) = Len(metrics) - 1

\* C5 as stated: every label pair of a record is a top-level payload key, and
\* the payload still holds values = the sample list, step_index = the step and
\* accelerator_labels = the derived list, whatever the label keys are.
C5_FlatteningKeepsDerivedKeys ==
  \A j \in 1..Len(batch) :
    LET m == metrics[origin[j]]
        p == batch[j].payload
    IN  HasLabelMap(m) =>
          /\ \A k \in LabelKeys(m) : p[k] = StrV(m.labels.map[k])
          /\ p["values"] = ListV(SampleList(m))
          /\ m.step # {} => p["step_index"] = IntV(CHOOSE s \in m.step : TRUE)
          /\ HasBothAcceleratorKeys(m) =>
               /\ p["accelerator_labels"].t = "list"
               /\ IsDerivedList(p["accelerator_labels"].list, m,
                                Len(SampleList(m)))

\* C5 amended: every label pair of a record is a top-level payload key; each
\* of values, step_index and accelerator_labels holds its derived value when
\* no label has that key, and the label's value when one has.
C5_FlatteningLabelsWin ==
  \A j \in 1..Len(batch) :
    LET m == metrics[origin[j]]
        p == batch[j].payload
    IN  HasLabelMap(m) =>
          /\ \A k \in LabelKeys(m) : p[k] = StrV(m.labels.map[k])
          /\ "values" \notin LabelKeys(m) => p["values"] = ListV(SampleList(m))
          /\ "step_index" \notin LabelKeys(m) =>
               p["step_index"] =
                 IF m.step # {} THEN IntV(CHOOSE s \in m.step : TRUE) ELSE Absent
          /\ ("accelerator_labels" \notin LabelKeys(m)
                /\ HasBothAcceleratorKeys(m)) =>
               /\ p["accelerator_labels"].t = "list"
               /\ IsDerivedList(p["accelerator_labels"].list, m,
                                Len(SampleList(m)))

C5_Witness ==
  \E j \in 1..Len(batch) :
    /\ metrics[origin[j]].labels = DerivedKeyClash
    /\ metrics[origin[j]].step = {5}
    /\ batch[j].payload["step_index"] = StrV("mine")
    /\ batch[j].payload["values"] = StrV("mine")

\* C6 as stated: a record whose labels hold hostname = h and
\* accelerator_type = t and whose sample list has n elements has payload
\* accelerator_labels = the n strings "h-t0", "h-t1", ...; a record without
\* labels or without either key has no derived accelerator_labels list.
C6_AcceleratorLabels ==
  \A j \in 1..Len(batch) :
    LET m == metrics[origin[j]]
        p == batch[j].payload
    IN  IF HasBothAcceleratorKeys(m)
          THEN /\ p["accelerator_labels"].t = "list"
               /\ IsDerivedList(p["accelerator_labels"].list, m,
                                Len(SampleList(m)))
          ELSE p["accelerator_labels"].t # "list"

\* C6 amended: the same, for records whose labels have no key named
\* accelerator_labels; with such a label the payload's accelerator_labels is
\* that label's value.
C6_AcceleratorLabelsUnlessLabelled ==
  \A j \in 1..Len(batch) :
    LET m == metrics[origin[j]]
        p == batch[j].payload
    IN  IF HasLabelMap(m) /\ "accelerator_labels" \in LabelKeys(m)
          THEN p["accelerator_labels"] = StrV(m.labels.map["accelerator_labels"])
          ELSE IF HasBothAcceleratorKeys(m)
            THEN /\ p["accelerator_labels"].t = "list"
                 /\ IsDerivedList(p["accelerator_labels"].list, m,
                                  Len(SampleList(m)))
            ELSE p["accelerator_labels"] = Absent

C6_Witness ==
  \E j \in 1..Len(batch) :
    /\ j >= 2
    /\ metrics[origin[j]].labels = HostAccelerator
    /\ Len(SampleList(metrics[origin[j]])) >= 2
    /\ batch[j].payload["accelerator_labels"] =
         ListV(<<Str("h-t0"), Str("h-t1")>>)

\* A numeric scalar, or a list of numeric scalars only.
WellShaped(m) ==
  \/ m.value.kind = "num"
  \/ m.value.kind = "list" /\ \A i \in 1..Len(m.value.list) : m.value.list[i].num

C9_ReportedCount == pc = "done" => reported = {Len(sink)}

\* C10: no entry reaches the sink and no call is made to it while records are
\* being processed; a successful call has made exactly one call to the sink,
\* carrying every appended entry; a failed call has made at most one.
C10_FlushOrdering ==
  /\ pc \in {"loop", "exit"} => sink = <<>> /\ flushes = 0
  /\ pc = "done" => flushes = 1 /\ sink = batch
  /\ pc = "raised" => flushes <= 1

C10_Witness == pc = "done" /\ Len(sink) >= 2 /\ flushes = 1

\* A description with no step supplied: no 'step' key, or 'step': None.
OmitsStep(metric_info) == ~metric_info.hasStep \/ metric_info.step = {}

\* C3: a description that carries a step s keeps step s in the record handed
\* to the backend, whatever default step record_metrics was called with.
C3_StepPrecedence ==
  lastOp = "record_metrics" =>
    \A i \in 1..Len(pre) :
      ~OmitsStep(pre[i]) =>
        delivered[i].hasStep /\ delivered[i].step = pre[i].step

C3_Witness ==
  /\ lastOp = "record_metrics"
  /\ \E i \in 1..Len(pre) :
       /\ pre[i].hasStep
       /\ pre[i].step = {1}
       /\ lastStep = {2}
       /\ delivered[i].step = {1}

\* C4 as stated: a description with no step (no key, or None) handed to
\* record_metrics gets the default step d when one is passed, and stays
\* without a step when none is.
C4_DefaultBackfill ==
  lastOp = "record_metrics" =>
    \A i \in 1..Len(pre) :
      OmitsStep(pre[i]) =>
        IF lastStep # {}
          THEN delivered[i].hasStep /\ delivered[i].step = lastStep
          ELSE OmitsStep(delivered[i])

\* C7 as stated: record_metrics leaves the caller's descriptions as they were,
\* so every call backfills its own default step into the descriptions the
\* caller built without a step key.
C7_PureTransform ==
  /\ objs = orig
  /\ (lastOp = "record_metrics" /\ lastStep # {}) =>
       \A i \in 1..Len(orig) :
         ~orig[i].hasStep => delivered[i].step = lastStep

====
